---- MODULE Spec2Model ----
(***************************************************************************)
(* Hinglishly (src/app.py): a Streamlit script.  Every user event reruns   *)
(* the script from its first line; st.button returns True only in the run  *)
(* that a click on it started; st.session_state and the st.cache_resource  *)
(* entries are what survives from one run to the next.                     *)
(*                                                                         *)
(* A script run is modelled step by step (pc), from the rerun request to   *)
(* the footer, st.stop(), st.rerun() or an unhandled exception.            *)
(*                                                                         *)
(* Python values carry their type (PyStr, PyInt, PyList, PyDict, PyNone).  *)
(* A text is a sequence of chunks (one-character strings for what the user *)
(* types, whole literals for the program's own strings), so that           *)
(* concatenation, splitting and counting are computed and not assumed.     *)
(***************************************************************************)
EXTENDS Integers, Sequences, FiniteSets, TLC

(***************************************************************************)
(* Bounds of the model.                                                    *)
(***************************************************************************)
\* longest text typed into the text area (SpecFallback)
MaxLen == 3
\* most button clicks delivered together in one rerun request
MaxCoalesced == 3

(***************************************************************************)
(* Python values.                                                          *)
(***************************************************************************)
PyStr(s) == [t |-> "str", s |-> s]
PyInt(n) == [t |-> "int", n |-> n]
PyList(l) == [t |-> "list", l |-> l]
PyDict(d) == [t |-> "dict", d |-> d]
PyNone == [t |-> "none"]

\* bool(v) as `if v:` and `not v` evaluate it
Truthy(v) ==
    CASE v.t = "none" -> FALSE
      [] v.t = "str" -> v.s # <<>>
      [] v.t = "int" -> v.n # 0
      [] v.t = "list" -> v.l # <<>>
      [] v.t = "dict" -> DOMAIN v.d # {}

\* a or b
PyOr(a, b) == IF Truthy(a) THEN a ELSE b

\* d.get(key, default) on a dict
Get(d, key, default) == IF key \in DOMAIN d.d THEN d.d[key] ELSE default

(***************************************************************************)
(* Texts.                                                                  *)
(***************************************************************************)
Whitespace == {" "}
Alphabet == {"a", " ", ".", "!", "?"}

SeqsUpTo(S, n) == UNION {[1..k -> S] : k \in 0..n}

\* what can be typed into the text area
Texts == SeqsUpTo(Alphabet, MaxLen)

\* text.count(ch)
Count(text, ch) == Cardinality({i \in 1..Len(text) : text[i] = ch})

\* len(text.split()): the maximal runs of non-whitespace characters
SplitLen(text) ==
    Cardinality({i \in 1..Len(text) :
                    /\ text[i] \notin Whitespace
                    /\ (i = 1 \/ text[i - 1] \in Whitespace)})

\* str.lower() on the labels the model uses
LowerChunk(c) ==
    CASE c = "None" -> "none"
      [] c = "Grammar" -> "grammar"
      [] c = "Unknown" -> "unknown"
      [] OTHER -> c

Lower(s) == [i \in 1..Len(s) |-> LowerChunk(s[i])]

(***************************************************************************)
(* The schema and its field names.                                         *)
(***************************************************************************)
RequiredFields == {"detected_error", "corrected_text"}
OptionalFields ==
    {"suggestions", "tone", "clarity_score", "vocabulary_enhancements",
     "explanations", "readability", "word_count", "sentence_count"}
Fields == RequiredFields \cup OptionalFields

\* the default= each optional Field of GrammarAnalysis declares
GrammarAnalysisDefault(f) ==
    CASE f = "suggestions" -> PyList(<<>>)
      [] f = "tone" -> PyStr(<<"Neutral">>)
      [] f = "clarity_score" -> PyInt(7)
      [] f = "vocabulary_enhancements" -> PyList(<<>>)
      [] f = "explanations" -> PyList(<<>>)
      [] f = "readability" -> PyStr(<<"Medium">>)
      [] f = "word_count" -> PyInt(0)
      [] f = "sentence_count" -> PyInt(0)

Tones == {"Keep Original", "Formal", "Friendly", "Professional", "Casual"}

\* analysis_text
AnalysisText(text, tone) ==
    IF tone # "Keep Original"
    THEN PyStr(<<"[Adjust tone to ", tone, "] ">> \o text.s)
    ELSE text

\* Fallback without the `or 1`
FallbackNoFloor(text) ==
    PyDict([f \in Fields |->
        CASE f = "detected_error" -> PyStr(<<"None">>)
          [] f = "corrected_text" -> text
          [] f = "suggestions" -> PyList(<<PyStr(<<"Text appears to be correct">>)>>)
          [] f = "tone" -> PyStr(<<"Neutral">>)
          [] f = "clarity_score" -> PyInt(7)
          [] f = "vocabulary_enhancements" -> PyList(<<>>)
          [] f = "explanations" -> PyList(<<>>)
          [] f = "readability" -> PyStr(<<"Medium">>)
          [] f = "word_count" -> PyInt(SplitLen(text.s))
          [] f = "sentence_count" ->
                PyInt(Count(text.s, ".") + Count(text.s, "!") + Count(text.s, "?"))])

\* the dict of the except branch
Fallback(text) ==
    PyDict([f \in Fields |->
        CASE f = "detected_error" -> PyStr(<<"None">>)
          [] f = "corrected_text" -> text
          [] f = "suggestions" -> PyList(<<PyStr(<<"Text appears to be correct">>)>>)
          [] f = "tone" -> PyStr(<<"Neutral">>)
          [] f = "clarity_score" -> PyInt(7)
          [] f = "vocabulary_enhancements" -> PyList(<<>>)
          [] f = "explanations" -> PyList(<<>>)
          [] f = "readability" -> PyStr(<<"Medium">>)
          [] f = "word_count" -> PyInt(SplitLen(text.s))
          [] f = "sentence_count" ->
                PyOr(PyInt(Count(text.s, ".") + Count(text.s, "!") + Count(text.s, "?")),
                     PyInt(1))])

(***************************************************************************)
(* The completion endpoint, as the script sees it.                         *)
(*                                                                         *)
(* chain = prompt | llm | parser.  llm raises on a transport or provider   *)
(* error; JsonOutputParser raises on a completion that is not JSON and     *)
(* otherwise returns the parsed JSON value as it is: pydantic_object only  *)
(* feeds get_format_instructions(), no GrammarAnalysis is ever built.      *)
(***************************************************************************)
Corrections == {<<"a">>, <<"b">>}

\* one well-typed, non-default value per optional field
GivenValue(f) ==
    CASE f = "suggestions" -> PyList(<<PyStr(<<"Add comma">>)>>)
      [] f = "tone" -> PyStr(<<"Formal">>)
      [] f = "clarity_score" -> PyInt(9)
      [] f = "vocabulary_enhancements" -> PyList(<<PyStr(<<"naam">>)>>)
      [] f = "explanations" -> PyList(<<PyStr(<<"Added comma">>)>>)
      [] f = "readability" -> PyStr(<<"Easy">>)
      [] f = "word_count" -> PyInt(4)
      [] f = "sentence_count" -> PyInt(2)

ErrorLabels == {PyStr(<<"None">>), PyStr(<<"Grammar">>)}

\* a JSON object with the fields of `present`, each well typed
JsonObject(present, label, correction) ==
    PyDict([f \in present |->
        CASE f = "detected_error" -> label
          [] f = "corrected_text" -> PyStr(correction)
          [] OTHER -> GivenValue(f)])

\* JSON objects that lack any subset of the fields
ObjectsLacking ==
    {JsonObject(present, label, correction) :
        present \in SUBSET Fields, label \in ErrorLabels, correction \in Corrections}

\* complete JSON objects
CompleteObjects ==
    {JsonObject(Fields, label, correction) :
        label \in ErrorLabels, correction \in Corrections}

\* complete JSON objects with one field of another type than the schema's
MistypedObjects ==
    {PyDict([o.d EXCEPT !["detected_error"] = v]) :
        o \in CompleteObjects, v \in {PyNone, PyInt(3)}}
    \cup {PyDict([o.d EXCEPT !["tone"] = PyList(<<>>)]) : o \in CompleteObjects}

\* JSON values that are no object
NonObjects == {PyNone, PyList(<<>>), PyStr(<<"ok">>), PyInt(3)}

FailureReplies ==
    {[kind |-> "error", error |-> e] : e \in {"TransportError", "ProviderError"}}
    \cup {[kind |-> "text", error |-> "OutputParserException"]}

JsonReplies(values) == {[kind |-> "json", value |-> v] : v \in values}

\* every reply the analysis can meet
AllReplies ==
    FailureReplies \cup JsonReplies(ObjectsLacking \cup MistypedObjects \cup NonObjects)

\* the replies of the session specification: one of each kind
SessionReplies ==
    FailureReplies
    \cup JsonReplies(CompleteObjects \cup {PyNone}
                     \cup {JsonObject(RequiredFields, PyStr(<<"Grammar">>), <<"b">>)})

\* chain.invoke(...): raises, or returns the parsed value
InvokeChain(reply) ==
    IF reply.kind = "json"
    THEN [raised |-> FALSE, value |-> reply.value]
    ELSE [raised |-> TRUE, value |-> PyNone]

\* llm.invoke(prompt): raises, or returns a message whose .content is a text
RewriteReplies ==
    {[kind |-> "error"], [kind |-> "content", empty |-> TRUE],
     [kind |-> "content", empty |-> FALSE]}

\* f"{v}"
Format(v) ==
    CASE v.t = "str" -> v.s
      [] v.t = "int" -> <<"<int>">>
      [] v.t = "none" -> <<"None">>
      [] OTHER -> <<"<repr>">>

Instruction(style) ==
    CASE style = "formal_version" ->
            "Rewrite this text in a formal tone while maintaining its meaning. Keep it concise: "
      [] style = "creative_version" ->
            "Rewrite this text in a creative and engaging way while maintaining its meaning. Keep it concise: "
      [] style = "professional_version" ->
            "Rewrite this text in a professional business tone while maintaining its meaning. Keep it concise: "

\* formal_prompt, creative_prompt, professional_prompt
RewritePrompt(style, corrected) == <<Instruction(style)>> \o Format(corrected)

\* .content of the completion of `prompt`
Content(reply, prompt) == IF reply.empty THEN <<>> ELSE <<"completion of: ">> \o prompt

(***************************************************************************)
(* State.                                                                  *)
(***************************************************************************)
Slots == {"formal_version", "creative_version", "professional_version"}
Buttons == {"analyze_button", "clear_button", "formal_btn", "creative_btn",
            "professional_btn"}
RewriteButtons == {"formal_btn", "creative_btn", "professional_btn"}

ButtonOf(style) ==
    CASE style = "formal_version" -> "formal_btn"
      [] style = "creative_version" -> "creative_btn"
      [] style = "professional_version" -> "professional_btn"

\* the panel that shows a stored version
PanelOf(style) ==
    CASE style = "formal_version" -> "formal_panel"
      [] style = "creative_version" -> "creative_panel"
      [] style = "professional_version" -> "professional_panel"

VARIABLES
    environ,        \* os.environ["GROQ_API_KEY"]: "UNSET", "" or a key
    cache,          \* the st.cache_resource functions whose value is cached
    session_state,  \* st.session_state: a function on the keys that are set
    page,           \* the buttons and version panels on the user's page
    rendered,       \* the buttons and version panels this run has rendered
    pc,             \* where the script run is
    pressed,        \* the buttons whose st.button(...) is True in this run
    text_input,     \* the script's text_input
    analysis_text,  \* the script's analysis_text
    result,         \* the script's result
    reply,          \* what the endpoint answered to the last call of this run
    notices,        \* st.error / st.warning / st.success shown in this run
    chainCalls,     \* chain.invoke calls of this run
    llmCalls,       \* llm.invoke calls of this run
    ended,          \* how the run ended: "end", "stop", "exception"
    analysed        \* history: `corrected` of the latest run in which Analyze
                    \* was True, Unbound while that run has not computed it

vars == <<environ, cache, session_state, page, rendered, pc, pressed, text_input,
          analysis_text, result, reply, notices, chainCalls, llmCalls, ended,
          analysed>>

\* the script's variables, as they are before a run assigns them
Unbound == [t |-> "unbound"]

locals == <<text_input, analysis_text, result>>

Init ==
    /\ environ \in {"UNSET", "", "gsk_key"}
    /\ cache = {}
    /\ session_state = <<>>
    /\ page = {}
    /\ rendered = {}
    /\ pc = "idle"
    /\ pressed = {}
    /\ text_input = Unbound
    /\ analysis_text = Unbound
    /\ result = Unbound
    /\ reply = Unbound
    /\ notices = {}
    /\ chainCalls = 0
    /\ llmCalls = 0
    /\ ended = ""
    /\ analysed = Unbound

\* ClearAll that only sets the keys 'not in st.session_state'
ClearAllIfMissing(state) ==
    [k \in DOMAIN state \cup Slots |-> IF k \in DOMAIN state THEN state[k] ELSE PyNone]

\* ClearAll with the third assignment forgotten
ClearAllButProfessional(state) ==
    [k \in DOMAIN state \cup {"formal_version", "creative_version"} |->
        IF k \in {"formal_version", "creative_version"} THEN PyNone ELSE state[k]]

\* st.session_state.formal_version = None, and the two others
ClearAll(state) ==
    [k \in DOMAIN state \cup Slots |-> IF k \in Slots THEN PyNone ELSE state[k]]

\* a run is over (st.stop(), an exception nobody catches, or the last line):
\* what it rendered is the page, the elements of the run before are removed
Finish(how, shown) ==
    /\ pc' = "done"
    /\ ended' = how
    /\ rendered' = shown
    /\ page' = shown

(***************************************************************************)
(* The rerun request: the clicks since the last run started, on buttons    *)
(* that are on the page.  Streamlit merges the requests that arrive while  *)
(* a run is busy, so more than one button can be True in one run.          *)
(***************************************************************************)
StartRun(maxClicks) ==
    /\ pc = "idle"
    /\ \E clicks \in SUBSET (page \cap Buttons) :
        /\ Cardinality(clicks) <= maxClicks
        /\ pressed' = clicks
    /\ rendered' = {}
    /\ pc' = "boot"
    /\ UNCHANGED <<environ, cache, session_state, page, locals, reply, notices,
                   chainCalls, llmCalls, ended>>
    /\ UNCHANGED analysed

\* load_dotenv() does not override a variable the environment has
LoadDotenv(env, fileKey) == IF env = "UNSET" THEN fileKey ELSE env

\* KeyMissing as `api_key is None`
KeyIsNone(key) == key = "UNSET"

\* not api_key
KeyMissing(key) == key \in {"UNSET", ""}

\* load_dotenv(); api_key = os.getenv(...); if not api_key: st.error, st.stop
Boot ==
    /\ pc = "boot"
    /\ \E fileKey \in {"UNSET", "", "gsk_key"} :
        environ' = LoadDotenv(environ, fileKey)
    /\ IF KeyMissing(environ')
       THEN /\ notices' = notices \cup {"API Key not configured"}
            /\ Finish("stop", rendered)
       ELSE /\ pc' = "init"
            /\ UNCHANGED <<notices, ended, page, rendered>>
    /\ UNCHANGED <<cache, session_state, pressed, locals, reply, chainCalls, llmCalls>>
    /\ UNCHANGED analysed

\* try: chain = get_chain(); llm = get_llm() except: st.error, st.stop
\* get_chain() calls get_llm() first; a function that raises caches nothing
InitChain ==
    /\ pc = "init"
    /\ \E fails \in {"nothing", "get_llm", "get_chain"} :
        LET llmRaises == "get_llm" \notin cache /\ fails = "get_llm"
            chainRaises == "get_chain" \notin cache /\ (llmRaises \/ fails = "get_chain")
        IN  IF "get_chain" \in cache
            THEN /\ cache' = cache
                 /\ pc' = "main"
                 /\ UNCHANGED <<notices, ended, page, rendered>>
            ELSE IF chainRaises
                 THEN /\ cache' = IF llmRaises THEN cache ELSE cache \cup {"get_llm"}
                      /\ notices' = notices \cup {"Service initialization failed"}
                      /\ Finish("stop", rendered)
                 ELSE /\ cache' = {"get_llm", "get_chain"}
                      /\ pc' = "main"
                      /\ UNCHANGED <<notices, ended, page, rendered>>
    /\ UNCHANGED <<environ, session_state, pressed, locals, reply, chainCalls, llmCalls>>
    /\ UNCHANGED analysed

\* text_input = st.text_area(...); the two st.button(...) of the action row
MainArea(texts) ==
    /\ pc = "main"
    /\ \E typed \in texts : text_input' = PyStr(typed)
    /\ rendered' = rendered \cup {"analyze_button", "clear_button"}
    /\ pc' = "buttons"
    /\ UNCHANGED <<environ, cache, session_state, page, pressed, analysis_text,
                   result, reply, notices, chainCalls, llmCalls, ended>>
    /\ UNCHANGED analysed

\* if clear_button: the three slots = None; st.rerun()
ClearHandler ==
    /\ pc = "buttons"
    /\ "clear_button" \in pressed
    /\ session_state' = ClearAll(session_state)
    /\ pressed' = {}
    /\ rendered' = {}
    /\ text_input' = Unbound
    /\ pc' = "boot"
    /\ UNCHANGED <<environ, cache, page, analysis_text, result, reply, notices,
                   chainCalls, llmCalls, ended>>
    /\ UNCHANGED analysed

\* neither button: the script goes on to the footer
NoHandler ==
    /\ pc = "buttons"
    /\ "clear_button" \notin pressed
    /\ "analyze_button" \notin pressed
    /\ Finish("end", rendered)
    /\ UNCHANGED <<environ, cache, session_state, pressed, locals, reply, notices,
                   chainCalls, llmCalls>>
    /\ UNCHANGED analysed

\* if analyze_button: the three slots = None
AnalyzeHandler ==
    /\ pc = "buttons"
    /\ "clear_button" \notin pressed
    /\ "analyze_button" \in pressed
    /\ session_state' = ClearAll(session_state)
    /\ pc' = "analyze"
    /\ UNCHANGED <<environ, cache, page, rendered, pressed, locals, reply, notices,
                   chainCalls, llmCalls, ended>>
    /\ analysed' = Unbound

\* IsEmpty as `text_input is None`
IsNoneText(text) == text.t = "none"

\* not text_input
IsEmpty(text) == ~Truthy(text)

\* Attempts with a second chain.invoke in the except branch
AttemptsWithRetry(got) == IF got.raised THEN 2 ELSE 1

\* the chain.invoke calls the try / except makes for one request
Attempts(got) == 1

\* if not text_input: st.warning(...)
EmptyInput ==
    /\ pc = "analyze"
    /\ IsEmpty(text_input)
    /\ notices' = notices \cup {"Please enter some text to analyze"}
    /\ Finish("end", rendered)
    /\ UNCHANGED <<environ, cache, session_state, pressed, locals, reply,
                   chainCalls, llmCalls>>
    /\ UNCHANGED analysed

\* else: analysis_text; try: result = chain.invoke(...) except: the fallback dict
AnalyzeRequest(replies) ==
    /\ pc = "analyze"
    /\ ~IsEmpty(text_input)
    /\ \E target_tone \in Tones, answer \in replies :
        LET got == InvokeChain(answer)
        IN  /\ analysis_text' = AnalysisText(text_input, target_tone)
            /\ reply' = answer
            /\ chainCalls' = chainCalls + Attempts(got)
            /\ IF got.raised
               THEN /\ notices' = notices \cup {"Using simplified analysis mode"}
                    /\ result' = Fallback(text_input)
               ELSE /\ notices' = notices
                    /\ result' = got.value
    /\ pc' = "display"
    /\ UNCHANGED <<environ, cache, session_state, page, rendered, pressed,
                   text_input, llmCalls, ended>>
    /\ UNCHANGED analysed

(***************************************************************************)
(* The results section.                                                    *)
(***************************************************************************)
\* result.get(field, default) with the default the results section passes
ResultGet(res, f, text) ==
    CASE f = "word_count" -> Get(res, f, PyStr(<<"N/A">>))
      [] f = "sentence_count" -> Get(res, f, PyStr(<<"N/A">>))
      [] f = "clarity_score" -> Get(res, f, PyInt(7))
      [] f = "readability" -> Get(res, f, PyStr(<<"Medium">>))
      [] f = "detected_error" -> Get(res, f, PyStr(<<"Unknown">>))
      [] f = "tone" -> Get(res, f, PyStr(<<"Neutral">>))
      [] f = "corrected_text" -> Get(res, f, text)
      [] f = "explanations" -> Get(res, f, PyList(<<>>))
      [] f = "vocabulary_enhancements" -> Get(res, f, PyList(<<>>))
      [] f = "suggestions" -> Get(res, f, PyList(<<>>))

\* result.get raises AttributeError unless result is a dict
GetRaises(res) == res.t # "dict"

\* error_type.lower() raises AttributeError unless error_type is a str
LowerRaises(res, text) == ResultGet(res, "detected_error", text).t # "str"

\* tone_colors.get(tone, ...) raises TypeError when tone is unhashable
ToneRaises(res, text) == ResultGet(res, "tone", text).t \in {"list", "dict"}

\* st.success(...) or st.warning(...) of the error detection
Banner(res, text) ==
    IF Lower(ResultGet(res, "detected_error", text).s) = <<"none">>
    THEN "No errors detected"
    ELSE "Issue Detected"

\* the keys 'not in st.session_state' are set to None
InitSlots(state) ==
    [k \in DOMAIN state \cup Slots |-> IF k \in DOMAIN state THEN state[k] ELSE PyNone]

\* from the stats overview to the paraphrasing section's session-state init
Display ==
    /\ pc = "display"
    /\ \E show_tone \in BOOLEAN :
        IF GetRaises(result) \/ LowerRaises(result, text_input)
        THEN /\ Finish("exception", rendered)
             /\ UNCHANGED <<notices, session_state, analysed>>
        ELSE IF show_tone /\ ToneRaises(result, text_input)
        THEN /\ Finish("exception", rendered)
             /\ notices' = notices \cup {Banner(result, text_input)}
             /\ UNCHANGED <<session_state, analysed>>
        ELSE /\ notices' = notices \cup {Banner(result, text_input)}
             /\ session_state' = InitSlots(session_state)
             /\ analysed' = ResultGet(result, "corrected_text", text_input)
             /\ pc' = "formal_version"
             /\ UNCHANGED <<ended, page, rendered>>
    /\ UNCHANGED <<environ, cache, pressed, locals, reply, chainCalls, llmCalls>>

\* corrected = result.get("corrected_text", text_input)
Corrected == ResultGet(result, "corrected_text", text_input)

FailureNotice(style) ==
    CASE style = "formal_version" -> "Failed to generate formal version"
      [] style = "creative_version" -> "Failed to generate creative version"
      [] style = "professional_version" -> "Failed to generate professional version"

\* SetSlot that resets the other keys
SetSlotAlone(state, style, content) ==
    [k \in DOMAIN state |-> IF k = style THEN PyStr(content) ELSE PyNone]

\* st.session_state.<style> = <style>_result.content
SetSlot(state, style, content) == [state EXCEPT ![style] = PyStr(content)]

\* if st.button(...): try: llm.invoke(prompt); slot = content except: st.error
RewriteHandler(style) ==
    IF ButtonOf(style) \in pressed
    THEN \E answer \in RewriteReplies :
            /\ llmCalls' = llmCalls + 1
            /\ reply' = answer
            /\ IF answer.kind = "error"
               THEN /\ notices' = notices \cup {FailureNotice(style)}
                    /\ UNCHANGED session_state
               ELSE /\ session_state' =
                        SetSlot(session_state, style,
                                Content(answer, RewritePrompt(style, Corrected)))
                    /\ UNCHANGED notices
    ELSE UNCHANGED <<llmCalls, reply, notices, session_state>>

\* the button of the column, and the stored version `if` it is truthy
ColumnShows(state, style) ==
    {ButtonOf(style)} \cup (IF Truthy(state[style]) THEN {PanelOf(style)} ELSE {})

\* one column of the paraphrasing section
RewriteColumn(style) ==
    /\ pc = style
    /\ RewriteHandler(style)
    /\ UNCHANGED <<environ, cache, pressed, locals, chainCalls>>
    /\ UNCHANGED analysed

FormalColumn ==
    /\ RewriteColumn("formal_version")
    /\ rendered' = rendered \cup ColumnShows(session_state', "formal_version")
    /\ pc' = "creative_version"
    /\ UNCHANGED <<ended, page>>

CreativeColumn ==
    /\ RewriteColumn("creative_version")
    /\ rendered' = rendered \cup ColumnShows(session_state', "creative_version")
    /\ pc' = "professional_version"
    /\ UNCHANGED <<ended, page>>

ProfessionalColumn ==
    /\ RewriteColumn("professional_version")
    /\ Finish("end", rendered \cup ColumnShows(session_state', "professional_version"))

\* the script thread is gone: its variables and what it counted with it
Return ==
    /\ pc = "done"
    /\ pc' = "idle"
    /\ pressed' = {}
    /\ text_input' = Unbound
    /\ analysis_text' = Unbound
    /\ result' = Unbound
    /\ reply' = Unbound
    /\ notices' = {}
    /\ chainCalls' = 0
    /\ llmCalls' = 0
    /\ ended' = ""
    /\ UNCHANGED <<environ, cache, session_state, page, rendered>>
    /\ UNCHANGED analysed

(***************************************************************************)
(* Specifications.                                                         *)
(***************************************************************************)
SessionTexts == {<<>>, <<"a">>}
DecodeTexts == {<<>>, <<"a">>, <<"a", " ", "a">>}

\* a session: every button, a few texts, one reply of each kind
Next ==
    \/ StartRun(MaxCoalesced)
    \/ Boot
    \/ InitChain
    \/ MainArea(SessionTexts)
    \/ ClearHandler
    \/ NoHandler
    \/ AnalyzeHandler
    \/ EmptyInput
    \/ AnalyzeRequest(SessionReplies)
    \/ Display
    \/ FormalColumn
    \/ CreativeColumn
    \/ ProfessionalColumn
    \/ Return

Spec == Init /\ [][Next]_vars

\* the analysis of a run, up to the end of the results section, on every reply
NextDecode ==
    \/ StartRun(1)
    \/ Boot
    \/ InitChain
    \/ MainArea(DecodeTexts)
    \/ ClearHandler
    \/ NoHandler
    \/ AnalyzeHandler
    \/ EmptyInput
    \/ AnalyzeRequest(AllReplies)
    \/ Display
    \/ Return

SpecDecode == Init /\ [][NextDecode]_vars

\* the analysis of a run whose completion call fails, on every text
NextFallback ==
    \/ StartRun(1)
    \/ Boot
    \/ InitChain
    \/ MainArea(Texts)
    \/ ClearHandler
    \/ NoHandler
    \/ AnalyzeHandler
    \/ EmptyInput
    \/ AnalyzeRequest(FailureReplies)
    \/ Display
    \/ Return

SpecFallback == Init /\ [][NextFallback]_vars

(***************************************************************************)
(* Properties.                                                             *)
(***************************************************************************)
AllSlotsNone ==
    /\ Slots \subseteq DOMAIN session_state
    /\ \A k \in Slots : session_state[k] = PyNone

\* a slot that holds a non-empty text
Filled(k) ==
    /\ k \in DOMAIN session_state
    /\ session_state[k].t = "str"
    /\ session_state[k].s # <<>>

\* C1: the step of a run in which Clear or Analyze is True that follows the
\* action row leaves formal_version, creative_version and professional_version
\* set to None, and so they are when the input text is validated.
C1_SlotsEmptied ==
    /\ [](pc = "analyze" => AllSlotsNone)
    /\ [][(pc = "buttons" /\ pressed \cap {"clear_button", "analyze_button"} # {})
            => AllSlotsNone']_vars

\* an Analyze on empty text has begun: the page still shows a formal and a
\* creative version, and the slots are None
C1_Witness ==
    /\ pc = "analyze"
    /\ text_input = PyStr(<<>>)
    /\ {"formal_panel", "creative_panel"} \subseteq page
    /\ AllSlotsNone

\* C2: a run in which a rewrite button is True and that reports no failure for
\* it ends with the returned text, non-empty, in the slot of that button.
C2_RewriteStored ==
    \A style \in Slots :
        (pc = "done" /\ ended = "end" /\ ButtonOf(style) \in pressed
            /\ FailureNotice(style) \notin notices)
        => Filled(style)

\* C3: while the text submitted is empty no completion call has been made and
\* no result produced, and a run that Analyze alone started ends having shown
\* the validation warning and nothing else.
C3_EmptyInputRejected ==
    text_input = PyStr(<<>>) =>
        /\ chainCalls = 0
        /\ llmCalls = 0
        /\ result = Unbound
        /\ reply = Unbound
        /\ (pc = "done" /\ "analyze_button" \in pressed) =>
                /\ notices = {"Please enter some text to analyze"}
                /\ ended = "end"

C3_Witness ==
    /\ pc = "done"
    /\ "analyze_button" \in pressed
    /\ text_input = PyStr(<<>>)
    /\ "Please enter some text to analyze" \in notices
    /\ chainCalls = 0

\* the whitespace-delimited tokens of a text, counted from left to right
RECURSIVE TokenCount(_, _)
TokenCount(s, inToken) ==
    IF s = <<>> THEN 0
    ELSE IF Head(s) \in Whitespace THEN TokenCount(Tail(s), FALSE)
    ELSE (IF inToken THEN 0 ELSE 1) + TokenCount(Tail(s), TRUE)

\* the '.', '!' and '?' of a text
RECURSIVE Terminators(_)
Terminators(s) ==
    IF s = <<>> THEN 0
    ELSE (IF Head(s) \in {".", "!", "?"} THEN 1 ELSE 0) + Terminators(Tail(s))

Max(a, b) == IF a >= b THEN a ELSE b

\* C4: when the completion call of the analysis fails, result is the Fallback
\* record of the text typed: ten fields, corrected_text the text without tone
\* tag, word_count its tokens, sentence_count its terminators or 1.
C4_FallbackRecord ==
    (pc = "display" /\ reply \in FailureReplies) =>
        /\ result.t = "dict"
        /\ DOMAIN result.d = Fields
        /\ result.d["detected_error"] = PyStr(<<"None">>)
        /\ result.d["corrected_text"] = text_input
        /\ result.d["suggestions"] = PyList(<<PyStr(<<"Text appears to be correct">>)>>)
        /\ result.d["tone"] = PyStr(<<"Neutral">>)
        /\ result.d["clarity_score"] = PyInt(7)
        /\ result.d["vocabulary_enhancements"] = PyList(<<>>)
        /\ result.d["explanations"] = PyList(<<>>)
        /\ result.d["readability"] = PyStr(<<"Medium">>)
        /\ result.d["word_count"] = PyInt(TokenCount(text_input.s, FALSE))
        /\ result.d["sentence_count"] = PyInt(Max(1, Terminators(text_input.s)))

\* a failed call on a tone-tagged text of two words and no terminator
C4_Witness ==
    /\ pc = "display"
    /\ reply \in FailureReplies
    /\ analysis_text # text_input
    /\ result.d["word_count"] = PyInt(2)
    /\ Terminators(text_input.s) = 0
    /\ result.d["sentence_count"] = PyInt(1)

\* the type GrammarAnalysis declares for a field
FieldType(f) ==
    CASE f \in {"detected_error", "corrected_text", "tone", "readability"} -> "str"
      [] f \in {"suggestions", "vocabulary_enhancements", "explanations"} -> "list"
      [] f \in {"clarity_score", "word_count", "sentence_count"} -> "int"

\* a JSON object whose fields have the types of the schema
WellTyped(v) ==
    /\ v.t = "dict"
    /\ \A f \in DOMAIN v.d : v.d[f].t = FieldType(f)

\* the analysis of this run got an answer and the results section is over
Answered == reply # Unbound /\ pc \in {"formal_version", "done"}

\* C5: an answer that is not JSON, or no JSON object, or an object with a
\* field of the wrong type, leaves the Fallback record as the result, and the
\* run does not end in an exception.
C5_DecodeErrorsFallBack ==
    (Answered /\ (reply.kind # "json" \/ ~WellTyped(reply.value))) =>
        /\ result = Fallback(text_input)
        /\ ended # "exception"

\* C6: after a JSON object that has the required fields and lacks some of the
\* optional ones, the run has not failed and the value the results section
\* reads for each missing field is the default the schema declares.
C6_MissingFieldsDefaulted ==
    (/\ Answered
     /\ reply.kind = "json"
     /\ WellTyped(reply.value)
     /\ RequiredFields \subseteq DOMAIN reply.value.d) =>
        /\ ended # "exception"
        /\ \A f \in OptionalFields \ DOMAIN reply.value.d :
                ResultGet(result, f, text_input) = GrammarAnalysisDefault(f)

\* C7: a result of the endpoint for a text sent without tone tag that the
\* results section has shown without any warning has corrected_text equal to
\* the text exactly when its detected_error is "None".
C7_UnchangedIffNoError ==
    (/\ pc = "formal_version"
     /\ reply.kind = "json"
     /\ analysis_text = text_input
     /\ "Issue Detected" \notin notices) =>
        (ResultGet(result, "corrected_text", text_input) = text_input
            <=> ResultGet(result, "detected_error", text_input) = PyStr(<<"None">>))

\* C8: the step of a rewrite column changes no other slot; it changes its own
\* slot only if its button is True and the call made answers; when the call
\* fails no slot changes, the failure is shown and the run goes on.  A run
\* that only rewrite buttons started changes no slot at all.
C8_RewriteFrame ==
    /\ [][\A style \in Slots :
            pc = style =>
                /\ \A k \in Slots \ {style} : session_state'[k] = session_state[k]
                /\ session_state'[style] # session_state[style] =>
                        /\ ButtonOf(style) \in pressed
                        /\ llmCalls' = llmCalls + 1
                        /\ reply'.kind = "content"
                        /\ notices' = notices
                /\ (ButtonOf(style) \in pressed /\ reply'.kind = "error") =>
                        /\ session_state' = session_state
                        /\ FailureNotice(style) \in notices'
                        /\ ended' \in {"", "end"}
                        /\ pc' \in Slots \cup {"done"}]_vars
    /\ [][(pressed # {} /\ pressed \subseteq RewriteButtons)
            => session_state' = session_state]_vars

\* the creative call has failed after the formal one succeeded: the formal
\* version is still there, the failure is shown, the run is at the next column
C8_Witness ==
    /\ pc = "professional_version"
    /\ "creative_btn" \in pressed
    /\ reply.kind = "error"
    /\ "Failed to generate creative version" \in notices
    /\ Filled("formal_version")
    /\ session_state["creative_version"] = PyNone

\* C9: while the credential is absent no run has gone past the key check: the
\* run is halted by st.stop(), nothing is cached, no call has been made, no
\* result produced and no session-state key written.
C9_NoKeyHalts ==
    environ \in {"UNSET", ""} =>
        /\ pc \in {"idle", "boot", "done"}
        /\ pc = "done" => (ended = "stop" /\ notices = {"API Key not configured"})
        /\ cache = {}
        /\ chainCalls = 0
        /\ llmCalls = 0
        /\ result = Unbound
        /\ reply = Unbound
        /\ session_state = <<>>

C9_Witness ==
    /\ environ = ""
    /\ pc = "done"
    /\ ended = "stop"
    /\ "API Key not configured" \in notices
    /\ cache = {}

\* C10: a run makes no chain.invoke call before the request and exactly one
\* from then on, whether the call answered or the Fallback record was built.
C10_OneAttempt ==
    /\ chainCalls <= 1
    /\ pc \in {"display", "formal_version", "creative_version", "professional_version"}
            => chainCalls = 1
    /\ result # Unbound => chainCalls = 1
    /\ pc \in {"idle", "boot", "init", "main", "buttons", "analyze"} => chainCalls = 0

\* the one call failed and the Fallback record is the result
C10_Witness ==
    /\ pc = "display"
    /\ reply \in FailureReplies
    /\ result = Fallback(text_input)
    /\ chainCalls = 1

\* C11: in every state a slot that holds a non-empty text holds the completion
\* of its rewrite prompt for the corrected text of the latest run in which
\* Analyze was True, never one for the corrected text of a run before it.
C11_SlotOfLatestAnalysis ==
    \A style \in Slots :
        Filled(style) =>
            /\ analysed # Unbound
            /\ session_state[style].s
                    = <<"completion of: ">> \o RewritePrompt(style, analysed)

\* a later run that a rewrite button alone started: the formal slot still
\* holds the rewrite made for "b", the corrected text of the latest analysis
C11_Witness ==
    /\ pc = "buttons"
    /\ pressed = {"creative_btn"}
    /\ Filled("formal_version")
    /\ analysed = PyStr(<<"b">>)
    /\ session_state["formal_version"].s
            = <<"completion of: ">> \o RewritePrompt("formal_version", PyStr(<<"b">>))

====
